---- MODULE Spec2Model ----
(***************************************************************************)
(* Event-sourced state engine of hde: the Processor (pure reducer), the    *)
(* Facet orchestrator (get / append / appendTo / recalculate / calculate)  *)
(* and the EventDB store adapter (getState / getRecords / putState) over a *)
(* DynamoDB-style table keyed by (_id, _rng).                              *)
(*                                                                         *)
(* Encodings.  A sort key "INBOUND/<type>/<seq>" is the tuple              *)
(* <<"INBOUND", type, seq>>, "OUTBOUND/<type>/<seq>/<index>" is            *)
(* <<"OUTBOUND", type, seq, index>> and "STATE" is <<"STATE">>; a          *)
(* partition key "<facet>/<id>" is <<facet, id>>.  JavaScript null is the  *)
(* number -1 (no reducer of the rule table produces a negative number).    *)
(* The _ts and _date attributes are left out: no operation reads them.     *)
(***************************************************************************)
EXTENDS Integers, Sequences, FiniteSets, Bags, TLC

VARIABLES
    store,      \* the table: a set of records, at most one per (_id, _rng)
    emitted,    \* the records the table put on its change stream in this step
    commits,    \* history: what the accepted transactions wrote
    calls,      \* the operations whose transaction is in flight: a bag
    res,        \* the outcome of the operation that finished last
    procIn,     \* arguments of a direct call of process or sortRecords
    procOut     \* its result, or the result of a Facet.get

vars == <<store, emitted, commits, calls, res, procIn, procOut>>

----------------------------------------------------------------------------
\* Bounds of the model.
NumWriters == 2
MaxCommits == 2
MaxLen == 2
MaxRows == 3

\* The rule table's states are the numbers 0 .. Modulus - 1.
Modulus == 3

\* DynamoDB's ceiling on the number of items of one transaction.
MaxTransactItems == 25

Ids == {"id"}
Null == -1

\* The facet the EventDB was constructed with, and the names Facet objects
\* writing through it are constructed with.
DbFacet == "facet"
FacetNames == {"facet", "other"}

----------------------------------------------------------------------------
\* JSON.stringify / JSON.parse on the values the model stores.
JsValues == {Null} \cup (0 .. Modulus - 1)

JSONstringify(v) == IF v = Null THEN "null" ELSE ToString(v)

JSONparse(s) == CHOOSE v \in JsValues : JSONstringify(v) = s

\* JavaScript truthiness of a state value (null and 0 are falsy).
Falsy(v) == v = Null \/ v = 0

----------------------------------------------------------------------------
\* Processor.

Event(type, event) == [type |-> type, event |-> event]

\* The rule table: "Tick" adds the payload to the state modulo Modulus; it
\* publishes "first" and "second" when the state wraps to 0 and "ticked"
\* otherwise.  "Debit" subtracts the payload and throws when the result
\* would be negative, as the ledger's transaction rule does below the
\* minimum balance.  "U" has no rule.  Published payloads are the
\* currentIndex handed to the reducer.
Types == {"Tick", "U"}
RuleTypesWithU == {"Tick", "Debit", "U"}
RuleTypes == {"Tick", "Debit"}
initial == 1

\* The message of the error the "Debit" rule throws.
ReducerError == "insufficient funds"

updater(type, input) ==
    IF type = "Debit"
    THEN LET newBalance == input.state - input.current IN
         [state |-> IF newBalance < 0 THEN input.state ELSE newBalance,
          published |-> <<>>,
          thrown |-> newBalance < 0]
    ELSE LET next == (input.state + input.current) % Modulus IN
         [state |-> next,
          published |-> IF next = 0
                        THEN <<Event("first", input.currentIndex),
                               Event("second", input.currentIndex)>>
                        ELSE <<Event("ticked", input.currentIndex)>>,
          thrown |-> FALSE]

publishTargetAlwaysNew(idx, pastLen) == "new"

publishTargetOffByOne(idx, pastLen) == IF idx > pastLen THEN "new" ELSE "past"

\* publish: idx >= pastInboundEvents.length ? newOutboundEvents : pastOutboundEvents
publishTarget(idx, pastLen) == IF idx >= pastLen THEN "new" ELSE "past"

\* The loop of Processor.process; a rule that throws ends it, and the field
\* thrown tells that process did not return.

RECURSIVE forEach(_, _, _, _)
forEach(result, allEvents, idx, pastLen) ==
    IF idx >= Len(allEvents) THEN result
    ELSE LET curr == allEvents[idx + 1] IN
         IF curr.type \in RuleTypes
         THEN LET out == updater(curr.type,
                                 [state |-> result.state,
                                  current |-> curr.event,
                                  currentIndex |-> idx,
                                  stateIndex |-> pastLen])
                  toNew == publishTarget(idx, pastLen) = "new"
              IN IF out.thrown THEN [result EXCEPT !.thrown = TRUE]
                 ELSE forEach([state |-> out.state,
                               pastOutboundEvents |->
                                   IF toNew THEN result.pastOutboundEvents
                                   ELSE result.pastOutboundEvents \o out.published,
                               newOutboundEvents |->
                                   IF toNew
                                   THEN result.newOutboundEvents \o out.published
                                   ELSE result.newOutboundEvents,
                               thrown |-> FALSE],
                              allEvents, idx + 1, pastLen)
         ELSE forEach(result, allEvents, idx + 1, pastLen)

process(state, pastInboundEvents, newInboundEvents) ==
    forEach([state |-> IF Falsy(state) THEN initial ELSE state,
             pastOutboundEvents |-> <<>>,
             newOutboundEvents |-> <<>>,
             thrown |-> FALSE],
            pastInboundEvents \o newInboundEvents, 0, Len(pastInboundEvents))

----------------------------------------------------------------------------
\* Record model.

facetId(facet, id) == <<facet, id>>

newRecordOfDbFacet(facet, id, seq, rng, type, item) ==
    [_facet |-> DbFacet, _id |-> facetId(DbFacet, id), _seq |-> seq,
     _rng |-> rng, _typ |-> type, _itm |-> JSONstringify(item)]

newRecord(facet, id, seq, rng, type, item) ==
    [_facet |-> facet, _id |-> facetId(facet, id), _seq |-> seq,
     _rng |-> rng, _typ |-> type, _itm |-> JSONstringify(item)]

isFacet(facet, r) == r._facet = facet

newStateRecord(facet, id, seq, item) ==
    newRecord(facet, id, seq, <<"STATE">>, facet, item)

isStateRecord(r) == r._rng = <<"STATE">>

inboundRecordRangeKeyWithoutSeq(type, seq) == <<"INBOUND", type>>

inboundRecordRangeKey(type, seq) == <<"INBOUND", type, seq>>

newInboundRecord(facet, id, seq, type, item) ==
    newRecord(facet, id, seq, inboundRecordRangeKey(type, seq), type, item)

isInboundRecord(r) == r._rng[1] = "INBOUND"

outboundRecordRangeKey(type, seq, index) == <<"OUTBOUND", type, seq, index>>

newOutboundRecord(facet, id, seq, index, type, item) ==
    newRecord(facet, id, seq, outboundRecordRangeKey(type, seq, index), type, item)

isOutboundRecord(r) == r._rng[1] = "OUTBOUND"

----------------------------------------------------------------------------
\* The table and its transactional write.

Key(r) == <<r._id, r._rng>>

createPutItemUnconditional(r) ==
    [Item |-> r,
     ConditionExpression |-> "",
     ExpressionAttributeValues |-> <<>>]

createPutItem(r) ==
    [Item |-> r,
     ConditionExpression |-> "attribute_not_exists(#_id)",
     ExpressionAttributeValues |-> <<>>]

createPutStateUnconditional(r, previousSeq) ==
    [Item |-> r,
     ConditionExpression |-> "",
     ExpressionAttributeValues |-> <<previousSeq>>]

createPutState(r, previousSeq) ==
    [Item |-> r,
     ConditionExpression |-> "attribute_not_exists(#_id) OR #_seq = :_seq",
     ExpressionAttributeValues |-> <<previousSeq>>]

ConditionHoldsAlways(put, st) == TRUE

ConditionHoldsOnlyOnEqualSeq(put, st) ==
    LET cur == {x \in st : Key(x) = Key(put.Item)} IN
    CASE put.ConditionExpression = "attribute_not_exists(#_id)" -> cur = {}
      [] put.ConditionExpression = "attribute_not_exists(#_id) OR #_seq = :_seq" ->
            IF cur = {} THEN put.ExpressionAttributeValues[1] = 0
            ELSE \A x \in cur : x._seq = put.ExpressionAttributeValues[1]
      [] OTHER -> TRUE

\* The table's evaluation of a Put's condition against the item currently
\* stored under the Put's key.
ConditionHolds(put, st) ==
    LET cur == {x \in st : Key(x) = Key(put.Item)} IN
    CASE put.ConditionExpression = "attribute_not_exists(#_id)" -> cur = {}
      [] put.ConditionExpression = "attribute_not_exists(#_id) OR #_seq = :_seq" ->
            cur = {} \/ \A x \in cur : x._seq = put.ExpressionAttributeValues[1]
      [] OTHER -> TRUE

PutItemKeepOld(st, item) == st \cup {item}

\* A Put replaces the item stored under the same (_id, _rng).
PutItem(st, item) == {x \in st : Key(x) # Key(item)} \cup {item}

RECURSIVE ApplyPuts(_, _)
ApplyPuts(puts, st) ==
    IF puts = <<>> THEN st
    ELSE ApplyPuts(Tail(puts), PutItem(st, Head(puts).Item))

RECURSIVE LoopOfPuts(_, _, _)
LoopOfPuts(puts, st, written) ==
    IF puts = <<>> THEN [ok |-> TRUE, store |-> st, written |-> written]
    ELSE IF ConditionHolds(Head(puts), st)
         THEN LoopOfPuts(Tail(puts), PutItem(st, Head(puts).Item),
                         Append(written, Head(puts).Item))
         ELSE [ok |-> FALSE, store |-> st, written |-> written]

TransactWriteAsLoop(puts, st) == LoopOfPuts(puts, st, <<>>)

\* TransactWriteCommand: every condition is evaluated against the table as
\* it stands; all Puts are applied or none.
TransactWrite(puts, st) ==
    IF \A i \in 1 .. Len(puts) : ConditionHolds(puts[i], st)
    THEN [ok |-> TRUE, store |-> ApplyPuts(puts, st),
          written |-> [i \in 1 .. Len(puts) |-> puts[i].Item]]
    ELSE [ok |-> FALSE, store |-> st, written |-> <<>>]

\* EventDB.getState: the item under (facet/id, STATE), or nothing.
getState(st, id) ==
    LET s == {r \in st : r._id = facetId(DbFacet, id) /\ r._rng = <<"STATE">>}
    IN IF s = {} THEN <<>> ELSE <<CHOOSE r \in s : TRUE>>

\* Order of sort keys as the table's Query returns them (ascending).
KindRank(k) == CASE k = "INBOUND" -> 1 [] k = "OUTBOUND" -> 3
                 [] k = "STATE" -> 4 [] OTHER -> 2
NameRank(n) == CASE n = "Tick" -> 1 [] n = "U" -> 2 [] n = "first" -> 3
                 [] n = "second" -> 4 [] OTHER -> 5
DecDigits(n) == IF n < 10 THEN <<n>> ELSE <<n \div 10, n % 10>>
RECURSIVE LexLess(_, _)
LexLess(a, b) ==
    IF a = <<>> THEN b # <<>>
    ELSE IF b = <<>> THEN FALSE
    ELSE IF Head(a) # Head(b) THEN Head(a) < Head(b)
    ELSE LexLess(Tail(a), Tail(b))
RngCode(rng) ==
    <<KindRank(rng[1])>>
    \o (IF Len(rng) >= 2 THEN <<NameRank(rng[2])>> ELSE <<>>)
    \o (IF Len(rng) >= 3 THEN DecDigits(rng[3]) ELSE <<>>)
    \o (IF Len(rng) >= 4 THEN <<10>> \o DecDigits(rng[4]) ELSE <<>>)
RngLess(a, b) == LexLess(RngCode(a), RngCode(b))

RECURSIVE InKeyOrder(_)
InKeyOrder(S) ==
    IF S = {} THEN <<>>
    ELSE LET m == CHOOSE x \in S : \A y \in S \ {x} : RngLess(x._rng, y._rng)
         IN <<m>> \o InKeyOrder(S \ {m})

\* EventDB.getRecords: every item of the partition facet/id.
getRecords(st, id) == InKeyOrder({r \in st : r._id = facetId(DbFacet, id)})

putStateCheckNoFacet(state, inbound, outbound) ==
    IF ~isStateRecord(state) THEN "putState: invalid state record"
    ELSE IF \E i \in 1 .. Len(inbound) : ~isInboundRecord(inbound[i])
         THEN "putState: invalid inbound record"
    ELSE IF \E i \in 1 .. Len(outbound) : ~isOutboundRecord(outbound[i])
         THEN "putState: invalid outbound record"
    ELSE IF Len(outbound) + Len(inbound) + 1 > MaxTransactItems
         THEN "putState: cannot exceed maximum DynamoDB transaction count"
    ELSE "ok"

putStateCheckOffByOne(state, inbound, outbound) ==
    IF ~isStateRecord(state) THEN "putState: invalid state record"
    ELSE IF ~isFacet(DbFacet, state) THEN "putState: state record has mismatched facet"
    ELSE IF \E i \in 1 .. Len(inbound) : ~isInboundRecord(inbound[i])
         THEN "putState: invalid inbound record"
    ELSE IF \E i \in 1 .. Len(inbound) : ~isFacet(DbFacet, inbound[i])
         THEN "putState: invalid facet for inbound record"
    ELSE IF \E i \in 1 .. Len(outbound) : ~isOutboundRecord(outbound[i])
         THEN "putState: invalid outbound record"
    ELSE IF \E i \in 1 .. Len(outbound) : ~isFacet(DbFacet, outbound[i])
         THEN "putState: invalid facet for outbound record"
    ELSE IF Len(outbound) + Len(inbound) + 1 >= MaxTransactItems
         THEN "putState: cannot exceed maximum DynamoDB transaction count"
    ELSE "ok"

\* EventDB.putState, the checks made before anything is sent.
putStateCheck(state, inbound, outbound) ==
    IF ~isStateRecord(state) THEN "putState: invalid state record"
    ELSE IF ~isFacet(DbFacet, state) THEN "putState: state record has mismatched facet"
    ELSE IF \E i \in 1 .. Len(inbound) : ~isInboundRecord(inbound[i])
         THEN "putState: invalid inbound record"
    ELSE IF \E i \in 1 .. Len(inbound) : ~isFacet(DbFacet, inbound[i])
         THEN "putState: invalid facet for inbound record"
    ELSE IF \E i \in 1 .. Len(outbound) : ~isOutboundRecord(outbound[i])
         THEN "putState: invalid outbound record"
    ELSE IF \E i \in 1 .. Len(outbound) : ~isFacet(DbFacet, outbound[i])
         THEN "putState: invalid facet for outbound record"
    ELSE IF Len(outbound) + Len(inbound) + 1 > MaxTransactItems
         THEN "putState: cannot exceed maximum DynamoDB transaction count"
    ELSE "ok"

\* EventDB.putState, the TransactItems it sends.
putItems(state, previousSeq, inbound, outbound) ==
    [i \in 1 .. Len(inbound) |-> createPutItem(inbound[i])]
    \o [i \in 1 .. Len(outbound) |-> createPutItem(outbound[i])]
    \o <<createPutState(state, previousSeq)>>

----------------------------------------------------------------------------
\* Facet.

getNothing(st, id) == <<>>

getWithoutItem(st, id) ==
    LET state == getState(st, id) IN
    IF state # <<>> THEN <<[record |-> state[1], item |-> Null]>> ELSE <<>>

\* Facet.get: the state row and its decoded payload, or nothing.
get(st, id) ==
    LET state == getState(st, id) IN
    IF state # <<>>
    THEN <<[record |-> state[1], item |-> JSONparse(state[1]._itm)]>>
    ELSE <<>>

RECURSIVE insertSortedUnstable(_, _)
insertSortedUnstable(sorted, r) ==
    IF sorted = <<>> THEN <<r>>
    ELSE IF r._seq <= sorted[Len(sorted)]._seq
         THEN Append(insertSortedUnstable(SubSeq(sorted, 1, Len(sorted) - 1), r),
                     sorted[Len(sorted)])
         ELSE Append(sorted, r)

RECURSIVE insertSorted(_, _)
insertSorted(sorted, r) ==
    IF sorted = <<>> THEN <<r>>
    ELSE IF r._seq < sorted[Len(sorted)]._seq
         THEN Append(insertSorted(SubSeq(sorted, 1, Len(sorted) - 1), r),
                     sorted[Len(sorted)])
         ELSE Append(sorted, r)

\* sortRecords: Array.prototype.sort (stable) by _seq ascending.
RECURSIVE sortRecords(_)
sortRecords(eventRecords) ==
    IF eventRecords = <<>> THEN <<>>
    ELSE insertSorted(sortRecords(SubSeq(eventRecords, 1, Len(eventRecords) - 1)),
                      eventRecords[Len(eventRecords)])

recordsAllReplayed(st, id) ==
    LET rs == getRecords(st, id)
        sts == SelectSeq(rs, isStateRecord)
    IN [state |-> IF sts = <<>> THEN <<>> ELSE <<sts[Len(sts)]>>,
        inboundEvents |-> sortRecords(SelectSeq(rs, LAMBDA r : ~isStateRecord(r))),
        outboundEvents |-> <<>>]

\* Facet.records: split the partition's rows by kind and sort the inbound.
records(st, id) ==
    LET rs == getRecords(st, id)
        sts == SelectSeq(rs, LAMBDA r : ~isInboundRecord(r) /\ ~isOutboundRecord(r)
                                        /\ isStateRecord(r))
    IN [state |-> IF sts = <<>> THEN <<>> ELSE <<sts[Len(sts)]>>,
        inboundEvents |-> sortRecords(SelectSeq(rs, isInboundRecord)),
        outboundEvents |-> SelectSeq(rs, LAMBDA r : ~isInboundRecord(r)
                                                  /\ isOutboundRecord(r))]

inboundSeqFromOne(seq, i) == seq + i

\* calculate: sequence of the i-th (0-based) new inbound event.
inboundSeq(seq, i) == seq + 1 + i

outboundIndexFromOne(i) == i + 1

\* calculate: index of the i-th (0-based) new outbound event.
outboundIndex(i) == i

\* Facet.calculate up to the call of db.putState; thrown tells that
\* processor.process threw, so that nothing after it ran.
calculate(name, id, state, seq, pastInboundEvents, newInboundEvents) ==
    LET pastEvents == [i \in 1 .. Len(pastInboundEvents) |->
                          Event(pastInboundEvents[i]._typ,
                                JSONparse(pastInboundEvents[i]._itm))]
        processingResult == process(state, pastEvents, newInboundEvents)
        hr == newStateRecord(name, id, seq + Len(newInboundEvents),
                             processingResult.state)
        newInboundRecords ==
            [i \in 1 .. Len(newInboundEvents) |->
                newInboundRecord(name, id, inboundSeq(seq, i - 1),
                                 newInboundEvents[i].type, newInboundEvents[i].event)]
        newOutboundRecords ==
            [i \in 1 .. Len(processingResult.newOutboundEvents) |->
                newOutboundRecord(name, id, seq + Len(newInboundEvents),
                                  outboundIndex(i - 1),
                                  processingResult.newOutboundEvents[i].type,
                                  processingResult.newOutboundEvents[i].event)]
    IN [thrown |-> processingResult.thrown,
        hr |-> hr,
        newInboundRecords |-> newInboundRecords,
        newOutboundRecords |-> newOutboundRecords,
        output |-> [seq |-> hr._seq,
                    item |-> processingResult.state,
                    pastOutboundEvents |-> processingResult.pastOutboundEvents,
                    newOutboundEvents |-> processingResult.newOutboundEvents]]

----------------------------------------------------------------------------
\* Callers.

Payloads == {1}

RECURSIVE EventLists(_)
EventLists(n) ==
    IF n = 0 THEN {<<>>}
    ELSE LET shorter == EventLists(n - 1) IN
         shorter \cup {Append(l, Event(t, p)) :
                          l \in {x \in shorter : Len(x) = n - 1},
                          t \in Types, p \in Payloads}

\* One batch too large for a single transaction.
BigBatch == [i \in 1 .. MaxTransactItems |-> Event("U", 1)]

\* The batches of new events callers pass: none, one event with a rule, one
\* without, and two events.
NewEventLists ==
    {<<>>, <<Event("Tick", 1)>>, <<Event("U", 1)>>,
     <<Event("Tick", 1), Event("Tick", 1)>>, <<Event("U", 1), Event("Tick", 1)>>}

\* The inputs of an operation: the name of the Facet object it is called on
\* and the new events.
FacetInputs == {<<DbFacet, evs>> : evs \in NewEventLists}

\* append is also called with the oversized batch and on a Facet object whose
\* name is not the name of its EventDB.
AppendInputs ==
    FacetInputs \cup {<<DbFacet, BigBatch>>}
    \cup {<<name, <<Event("Tick", 1)>>>> : name \in FacetNames \ {DbFacet}}

\* State and sequence values a caller of appendTo may hold.
AppendToStates == {Null, 2}
AppendToSeqs == {0, 1}

NoOutput == [seq |-> 0, item |-> Null,
             pastOutboundEvents |-> <<>>, newOutboundEvents |-> <<>>]
NoResult == [op |-> "none", previousSeq |-> 0, n |-> 0,
             status |-> "none", error |-> "", output |-> NoOutput]
Failure(msg) == [NoResult EXCEPT !.status = "error", !.error = msg]
Success(c) == [op |-> c.op, previousSeq |-> c.seq, n |-> Len(c.events),
               status |-> "ok", error |-> "", output |-> c.output]

\* History: the inbound and outbound rows of the accepted transactions, the
\* state row of the last one, the state sequences they wrote and their number.
NoCommits == [rows |-> {}, state |-> <<>>, seqs |-> {}, count |-> 0]

Init ==
    /\ store = {}
    /\ emitted = <<>>
    /\ commits = NoCommits
    /\ calls = EmptyBag
    /\ res = NoResult
    /\ procIn = <<>>
    /\ procOut = <<>>

\* At most NumWriters callers run an operation at a time, and the model
\* stops starting operations once MaxCommits transactions are accepted or in
\* flight.
CanStart ==
    /\ BagCardinality(calls) < NumWriters
    /\ commits.count + BagCardinality(calls) < MaxCommits

calculateErrorWithoutReducer(c) ==
    putStateCheck(c.hr, c.newInboundRecords, c.newOutboundRecords)

\* The error calculate ends with before anything is sent: the one the
\* reducer threw, else the one of putState's validation, else "ok".
calculateError(c) ==
    IF c.thrown THEN ReducerError
    ELSE putStateCheck(c.hr, c.newInboundRecords, c.newOutboundRecords)

\* calculate, from its entry to the moment it throws or putState has sent
\* the transaction (c is the one value calculate computed).
Invoke(op, name, id, state, seq, pastInboundEvents, newInboundEvents) ==
    \E c \in {calculate(name, id, state, seq, pastInboundEvents, newInboundEvents)} :
    \E check \in {calculateError(c)} :
       IF check = "ok"
       THEN /\ calls' = calls (+) SetToBag({
                          [op |-> op, name |-> name, id |-> id, seq |-> seq,
                           events |-> newInboundEvents,
                           items |-> putItems(c.hr, seq, c.newInboundRecords,
                                              c.newOutboundRecords),
                           output |-> c.output]})
            /\ res' = NoResult
       ELSE /\ calls' = calls
            /\ res' = Failure(check)

AppendSeqFromOne(name, id, newInboundEvents) ==
    /\ CanStart
    /\ LET stateRecord == get(store, id)
           state == IF stateRecord # <<>> THEN stateRecord[1].item ELSE Null
           seq == IF stateRecord # <<>> THEN stateRecord[1].record._seq ELSE 1
       IN Invoke("append", name, id, state, seq, <<>>, newInboundEvents)
    /\ emitted' = <<>>
    /\ UNCHANGED <<store, commits, procIn, procOut>>

\* Facet.append: read the state row (once: stateRecord is the value read),
\* then calculate.
Append_(name, id, newInboundEvents) ==
    /\ CanStart
    /\ \E stateRecord \in {get(store, id)} :
          LET state == IF stateRecord # <<>> THEN stateRecord[1].item ELSE Null
              seq == IF stateRecord # <<>> THEN stateRecord[1].record._seq ELSE 0
          IN Invoke("append", name, id, state, seq, <<>>, newInboundEvents)
    /\ emitted' = <<>>
    /\ UNCHANGED <<store, commits, procIn, procOut>>

AppendToReading(name, id, state, seq, newInboundEvents) ==
    /\ CanStart
    /\ LET stateRecord == get(store, id)
           stored == IF stateRecord # <<>> THEN stateRecord[1].record._seq ELSE seq
       IN Invoke("appendTo", name, id, state, stored, <<>>, newInboundEvents)
    /\ emitted' = <<>>
    /\ UNCHANGED <<store, commits, procIn, procOut>>

\* Facet.appendTo: no read, the caller's state and seq.
AppendTo(name, id, state, seq, newInboundEvents) ==
    /\ CanStart
    /\ Invoke("appendTo", name, id, state, seq, <<>>, newInboundEvents)
    /\ emitted' = <<>>
    /\ UNCHANGED <<store, commits, procIn, procOut>>

RecalculateFromStored(name, id, newInboundEvents) ==
    /\ CanStart
    /\ LET rs == records(store, id)
           seq == IF rs.state # <<>> THEN rs.state[1]._seq ELSE 0
           state == IF rs.state # <<>> THEN JSONparse(rs.state[1]._itm) ELSE Null
       IN Invoke("recalculate", name, id, state, seq, rs.inboundEvents,
                 newInboundEvents)
    /\ emitted' = <<>>
    /\ UNCHANGED <<store, commits, procIn, procOut>>

\* Facet.recalculate: read every row of the entity, then calculate from null.
Recalculate(name, id, newInboundEvents) ==
    /\ CanStart
    /\ LET rs == records(store, id)
           seq == IF rs.state # <<>> THEN rs.state[1]._seq ELSE 0
       IN Invoke("recalculate", name, id, Null, seq, rs.inboundEvents,
                 newInboundEvents)
    /\ emitted' = <<>>
    /\ UNCHANGED <<store, commits, procIn, procOut>>

\* Errors the client raises for a read it could not carry out.
StoreErrors == {"InternalServerError"}

\* The operations that begin with a read: append (Facet.get, getState) and
\* recalculate (Facet.records, getRecords).
ReadingOps == {"append", "recalculate"}

\* The read of append or recalculate is rejected: nothing catches the
\* rejection, so it is the operation's, and calculate is never reached.
ReadFails(op, id, error) ==
    /\ CanStart
    /\ res' = [Failure(error) EXCEPT !.op = op]
    /\ emitted' = <<>>
    /\ UNCHANGED <<store, commits, calls, procIn, procOut>>

\* History after the transaction of call c was accepted.
Accepted(c) ==
    LET state == c.items[Len(c.items)].Item IN
    [rows |-> commits.rows \cup {c.items[i].Item : i \in 1 .. Len(c.items) - 1},
     state |-> <<state>>,
     seqs |-> commits.seqs \cup {state._seq},
     count |-> commits.count + 1]

\* The table accepts the transaction; calculate returns its ChangeOutput.
TransactWriteCommit(c) ==
    /\ BagIn(c, calls)
    /\ LET t == TransactWrite(c.items, store) IN
       /\ t.ok
       /\ store' = t.store
       /\ emitted' = t.written
    /\ commits' = Accepted(c)
    /\ calls' = calls (-) SetToBag({c})
    /\ res' = Success(c)
    /\ UNCHANGED <<procIn, procOut>>

TransactWriteCancelSwallowed(c) ==
    /\ BagIn(c, calls)
    /\ LET t == TransactWrite(c.items, store) IN
       /\ ~t.ok
       /\ store' = t.store
       /\ emitted' = t.written
    /\ calls' = calls (-) SetToBag({c})
    /\ res' = Success(c)
    /\ UNCHANGED <<commits, procIn, procOut>>

\* The table cancels the transaction; the error reaches the caller.
TransactWriteCancel(c) ==
    /\ BagIn(c, calls)
    /\ LET t == TransactWrite(c.items, store) IN
       /\ ~t.ok
       /\ store' = t.store
       /\ emitted' = t.written
    /\ calls' = calls (-) SetToBag({c})
    /\ res' = [Failure("TransactionCanceledException") EXCEPT !.previousSeq = c.seq]
    /\ UNCHANGED <<commits, procIn, procOut>>

Next ==
    \/ \E id \in Ids, in \in AppendInputs :
          Append_(in[1], id, in[2])
    \/ \E id \in Ids, in \in FacetInputs,
          state \in AppendToStates, seq \in AppendToSeqs :
          AppendTo(in[1], id, state, seq, in[2])
    \/ \E id \in Ids, in \in FacetInputs :
          Recalculate(in[1], id, in[2])
    \/ \E c \in BagToSet(calls) : TransactWriteCommit(c)
    \/ \E c \in BagToSet(calls) : TransactWriteCancel(c)

Spec == Init /\ [][Next]_vars

----------------------------------------------------------------------------
\* One caller that awaits each operation before it starts the next; the
\* reads of append and recalculate may fail.

NextSeq ==
    \/ /\ calls = EmptyBag
       /\ \/ \E id \in Ids, in \in AppendInputs :
                Append_(in[1], id, in[2])
          \/ \E id \in Ids, in \in FacetInputs,
                state \in AppendToStates, seq \in AppendToSeqs :
                AppendTo(in[1], id, state, seq, in[2])
          \/ \E id \in Ids, in \in FacetInputs :
                Recalculate(in[1], id, in[2])
          \/ \E op \in ReadingOps, id \in Ids, error \in StoreErrors :
                ReadFails(op, id, error)
    \/ \E c \in BagToSet(calls) : TransactWriteCommit(c)
    \/ \E c \in BagToSet(calls) : TransactWriteCancel(c)

SpecSeq == Init /\ [][NextSeq]_vars

----------------------------------------------------------------------------
\* One caller that awaits each operation, on a Facet object of either name,
\* with the usual batches, the oversized one and batches whose "Debit" event
\* the rule may refuse.

DebitLists ==
    {<<Event("Debit", 2)>>, <<Event("Tick", 1), Event("Debit", 2)>>}

\* On the Facet of the EventDB's name: a batch that commits and the batches
\* with a "Debit"; on the other Facet: every batch.
AnyInputs ==
    {<<DbFacet, evs>> : evs \in {<<Event("Tick", 1)>>} \cup DebitLists}
    \cup {<<name, evs>> : name \in FacetNames \ {DbFacet},
                          evs \in NewEventLists \cup {BigBatch} \cup DebitLists}

NextAny ==
    \/ /\ calls = EmptyBag
       /\ \/ \E id \in Ids, in \in AnyInputs :
                Append_(in[1], id, in[2])
          \/ \E id \in Ids, in \in AnyInputs,
                state \in AppendToStates, seq \in AppendToSeqs :
                AppendTo(in[1], id, state, seq, in[2])
          \/ \E id \in Ids, in \in AnyInputs :
                Recalculate(in[1], id, in[2])
    \/ \E c \in BagToSet(calls) : TransactWriteCommit(c)
    \/ \E c \in BagToSet(calls) : TransactWriteCancel(c)

SpecAny == Init /\ [][NextAny]_vars

----------------------------------------------------------------------------
\* Writers that each append a batch to the same entity and, after a
\* cancelled transaction, read the state again and append again.

Writers == 1 .. NumWriters

\* The batches writer w may append: the callers' batches of at least one
\* event, with the payload w that tells the writers apart.
WriterBatches(w) ==
    {[i \in 1 .. Len(evs) |-> Event(evs[i].type, w)] :
        evs \in NewEventLists \ {<<>>}}

InFlight(w) ==
    \E c \in BagToSet(calls) : c.events \in WriterBatches(w)

HasCommitted(w) ==
    \E r \in store : isInboundRecord(r) /\ r._itm = JSONstringify(w)

\* Writer w appends, for the first time or again after a cancellation.
RetryAppend(w) ==
    /\ ~InFlight(w)
    /\ ~HasCommitted(w)
    /\ \E id \in Ids, evs \in WriterBatches(w) : Append_(DbFacet, id, evs)

\* The table answers the transaction of writer w.
RetryAnswer(w) ==
    \E c \in BagToSet(calls) :
        /\ c.events \in WriterBatches(w)
        /\ (TransactWriteCommit(c) \/ TransactWriteCancel(c))

NextRetry ==
    \/ \E w \in Writers : RetryAppend(w)
    \/ \E c \in BagToSet(calls) : TransactWriteCommit(c)
    \/ \E c \in BagToSet(calls) : TransactWriteCancel(c)

\* Every writer that can append does, and every transaction is answered.
SpecRetry ==
    /\ Init
    /\ [][NextRetry]_vars
    /\ \A w \in Writers : WF_vars(RetryAppend(w)) /\ WF_vars(RetryAnswer(w))

----------------------------------------------------------------------------
\* Callers that use only append and recalculate, with the adapter's facet.

NextLog ==
    \/ \E id \in Ids, in \in FacetInputs :
          Append_(in[1], id, in[2])
    \/ \E id \in Ids, in \in FacetInputs :
          Recalculate(in[1], id, in[2])
    \/ \E c \in BagToSet(calls) : TransactWriteCommit(c)
    \/ \E c \in BagToSet(calls) : TransactWriteCancel(c)

SpecLog == Init /\ [][NextLog]_vars

----------------------------------------------------------------------------
\* Direct calls of EventDB.putState with records the caller built; the caller
\* awaits each call before the next.

\* Lists of n inbound rows and of n outbound rows of the entity.
ManyInbound(n) == [i \in 1 .. n |-> newInboundRecord(DbFacet, "id", i, "U", 1)]
ManyOutbound(n) == [i \in 1 .. n |-> newOutboundRecord(DbFacet, "id", 1, i, "ticked", 0)]

\* The state argument: state records of the adapter's facet, one of another
\* facet, and an outbound record.
PutStateRecords ==
    {newStateRecord(DbFacet, "id", 1, 1), newStateRecord(DbFacet, "id", 2, 0)}
    \cup {newStateRecord("other", "id", 1, 1),
          newOutboundRecord(DbFacet, "id", 1, 0, "ticked", 0)}

\* The inbound argument: nothing, one row, an outbound record, a row of
\* another facet, and lists that fill a transaction or overfill it.
PutStateInbound ==
    {<<>>, <<newInboundRecord(DbFacet, "id", 1, "Tick", 1)>>,
     <<newOutboundRecord(DbFacet, "id", 1, 0, "ticked", 0)>>,
     <<newInboundRecord("other", "id", 1, "Tick", 1)>>,
     ManyInbound(MaxTransactItems - 2), ManyInbound(MaxTransactItems - 1),
     ManyInbound(MaxTransactItems)}

\* The outbound argument, likewise.
PutStateOutbound ==
    {<<>>, <<newOutboundRecord(DbFacet, "id", 1, 0, "ticked", 0)>>,
     <<newInboundRecord(DbFacet, "id", 1, "Tick", 1)>>,
     <<newOutboundRecord("other", "id", 1, 0, "ticked", 0)>>}
PutStateSeqs == {0, 1}

\* The calls of putState: every state argument with no or one valid row of
\* each kind, and the first state record with every inbound list and with
\* every outbound list.
PutStateInputs ==
    LET first == newStateRecord(DbFacet, "id", 1, 1)
        inbound == <<newInboundRecord(DbFacet, "id", 1, "Tick", 1)>>
        outbound == <<newOutboundRecord(DbFacet, "id", 1, 0, "ticked", 0)>>
    IN {<<s, i, o>> : s \in PutStateRecords, i \in {<<>>, inbound},
                      o \in {<<>>, outbound}}
       \cup {<<first, i, o>> : i \in PutStateInbound, o \in {<<>>, outbound}}
       \cup {<<first, <<>>, o>> : o \in PutStateOutbound}

\* EventDB.putState: the checks, then the transaction is sent.
PutState(state, previousSeq, inbound, outbound) ==
    /\ CanStart
    /\ calls = EmptyBag
    /\ LET check == putStateCheck(state, inbound, outbound) IN
       IF check = "ok"
       THEN /\ calls' = calls (+) SetToBag({
                          [op |-> "putState", name |-> state._facet,
                           id |-> state._id[2], seq |-> previousSeq,
                           events |-> [i \in 1 .. Len(inbound) |->
                                          Event(inbound[i]._typ,
                                                JSONparse(inbound[i]._itm))],
                           items |-> putItems(state, previousSeq, inbound, outbound),
                           output |-> NoOutput]})
            /\ res' = NoResult
       ELSE /\ calls' = calls
            /\ res' = Failure(check)
    /\ emitted' = <<>>
    /\ UNCHANGED <<store, commits, procIn, procOut>>

\* Facet.get called on a Facet object of the adapter's facet; <<>> is null.
GetIds == {"id", "abc"}

Get(id) ==
    /\ procOut' = <<get(store, id)>>
    /\ UNCHANGED <<store, emitted, commits, calls, res, procIn>>

NextDb ==
    \/ \E id \in GetIds : Get(id)
    \/ \E in \in PutStateInputs, previousSeq \in PutStateSeqs :
          PutState(in[1], previousSeq, in[2], in[3])
    \/ \E c \in BagToSet(calls) : TransactWriteCommit(c)
    \/ \E c \in BagToSet(calls) : TransactWriteCancel(c)

SpecDb == Init /\ [][NextDb]_vars

----------------------------------------------------------------------------
\* Direct calls of Processor.process.

ProcStates == {Null, 0, 1, 2}

InitProc ==
    /\ store = {}
    /\ emitted = <<>>
    /\ commits = NoCommits
    /\ calls = EmptyBag
    /\ res = NoResult
    /\ procIn \in {<<[state |-> s, pastInboundEvents |-> p, newInboundEvents |-> n]>> :
                      s \in ProcStates, p \in EventLists(MaxLen), n \in EventLists(MaxLen)}
    /\ procOut = <<>>

Process ==
    /\ procOut = <<>>
    /\ procOut' = <<process(procIn[1].state, procIn[1].pastInboundEvents,
                            procIn[1].newInboundEvents)>>
    /\ UNCHANGED <<store, emitted, commits, calls, res, procIn>>

NextProc == Process

SpecProc == InitProc /\ [][NextProc]_vars

----------------------------------------------------------------------------
\* Direct calls of sortRecords on the inbound rows of one entity in any
\* order a store may return them.

SortRows ==
    {newInboundRecord(DbFacet, "id", seq, type, 1) : seq \in 1 .. 3, type \in Types}

RECURSIVE RowLists(_)
RowLists(n) ==
    IF n = 0 THEN {<<>>}
    ELSE LET shorter == RowLists(n - 1) IN
         shorter \cup {Append(l, r) :
                          l \in {x \in shorter : Len(x) = n - 1},
                          r \in SortRows}

InitSort ==
    /\ store = {}
    /\ emitted = <<>>
    /\ commits = NoCommits
    /\ calls = EmptyBag
    /\ res = NoResult
    /\ procIn \in {<<l>> : l \in {x \in RowLists(MaxRows) :
                                     \A i, j \in 1 .. Len(x) : x[i] = x[j] => i = j}}
    /\ procOut = <<>>

SortRecords ==
    /\ procOut = <<>>
    /\ procOut' = <<sortRecords(procIn[1])>>
    /\ UNCHANGED <<store, emitted, commits, calls, res, procIn>>

NextSort == SortRecords

SpecSort == InitSort /\ [][NextSort]_vars

----------------------------------------------------------------------------
\* The change-stream forwarder: handler is invoked with a batch of stream
\* records and publishes to the event bus.

MaxBatch == 3

\* String.prototype.startsWith.
startsWith(str, prefix) ==
    Len(str) >= Len(prefix) /\ SubSeq(str, 1, Len(prefix)) = prefix

\* The new image of a row as the stream delivers it: strings as {S: ...},
\* the sequence number as {N: ...}.
Image(rng, facet, typ, itm) ==
    [_rng |-> [S |-> rng], _facet |-> [S |-> facet],
     _typ |-> [S |-> typ], _itm |-> [S |-> itm], _seq |-> [N |-> 1]]

Inserted(image) == [eventName |-> "INSERT", dynamodb |-> [NewImage |-> image]]

\* The records a stream delivers: a state row, an inbound row, two outbound
\* rows, an outbound row of an event type that is the empty string, a row
\* whose sort key merely starts with OUTBOUND, an outbound row whose _itm is
\* not a string, an outbound row without _facet, and the removal of a row
\* (no new image).
StreamRecords ==
    {Inserted(Image("STATE", "facet", "facet", "1")),
     Inserted(Image("INBOUND/Tick/1", "facet", "Tick", "1")),
     Inserted(Image("OUTBOUND/first/1/0", "facet", "first", "1")),
     Inserted(Image("OUTBOUND/second/1/1", "facet", "second", "2")),
     Inserted(Image("OUTBOUND//1/0", "facet", "", "1")),
     Inserted(Image("OUTBOUNDARY", "facet", "edge", "1")),
     Inserted([Image("OUTBOUND/first/2/0", "facet", "first", "1")
                  EXCEPT !._itm = [N |-> 1]]),
     Inserted([k \in {"_rng", "_typ", "_itm"} |->
                  Image("OUTBOUND/first/3/0", "facet", "first", "1")[k]]),
     [eventName |-> "REMOVE", dynamodb |-> [Keys |-> [_rng |-> [S |-> "STATE"]]]]}

RECURSIVE StreamBatches(_)
StreamBatches(n) ==
    IF n = 0 THEN {<<>>}
    ELSE LET shorter == StreamBatches(n - 1) IN
         shorter \cup {Append(l, r) :
                          l \in {x \in shorter : Len(x) = n - 1},
                          r \in StreamRecords}

\* r.dynamodb?.NewImage?.[k]?.S, with "" standing for undefined as well:
\* both are falsy.
stringOf(r, k) ==
    IF /\ "NewImage" \in DOMAIN r.dynamodb
       /\ k \in DOMAIN r.dynamodb.NewImage
       /\ "S" \in DOMAIN r.dynamodb.NewImage[k]
    THEN r.dynamodb.NewImage[k].S
    ELSE ""

hasStringKey(r, k) == stringOf(r, k) # ""

hasSortKey(r) == hasStringKey(r, "_rng")

hasSortKeyThatStartsWithOutbound(r) ==
    hasStringKey(r, "_rng") /\ startsWith(stringOf(r, "_rng"), "OUTBOUND")

hasRequiredKeys(r) ==
    /\ hasSortKeyThatStartsWithOutbound(r)
    /\ hasStringKey(r, "_facet")
    /\ hasStringKey(r, "_typ")
    /\ hasStringKey(r, "_itm")

\* publish: one putEvents call with one entry. The bus accepts the entry or
\* answers with an ErrorMessage for it, and publish throws; failAt is the
\* number of the call the bus refuses (0: none).
publish(source, detailType, detail, bus, failAt) ==
    IF Len(bus) + 1 = failAt
    THEN [ok |-> FALSE, bus |-> bus]
    ELSE [ok |-> TRUE,
          bus |-> Append(bus, [EventBusName |-> "default", Source |-> source,
                               DetailType |-> detailType, Detail |-> detail])]

\* handler: the loop over event.Records from index i.
RECURSIVE handler(_, _, _, _)
handler(Records, i, bus, failAt) ==
    IF i > Len(Records) THEN [status |-> "ok", bus |-> bus]
    ELSE LET r == Records[i] IN
         IF ~hasRequiredKeys(r) THEN handler(Records, i + 1, bus, failAt)
         ELSE LET typ == r.dynamodb.NewImage._typ.S
                  itm == r.dynamodb.NewImage._itm.S
              IN IF typ # "" /\ itm # ""
                 THEN LET p == publish("finance-v2", typ, itm, bus, failAt) IN
                      IF p.ok THEN handler(Records, i + 1, p.bus, failAt)
                      ELSE [status |-> "error", bus |-> p.bus]
                 ELSE handler(Records, i + 1, bus, failAt)

InitStream ==
    /\ store = {}
    /\ emitted = <<>>
    /\ commits = NoCommits
    /\ calls = EmptyBag
    /\ res = NoResult
    /\ procIn \in {<<b>> : b \in StreamBatches(MaxBatch)}
    /\ procOut = <<>>

\* One invocation of handler with the batch.
Handler(failAt) ==
    /\ procOut = <<>>
    /\ procOut' = <<handler(procIn[1], 1, <<>>, failAt)>>
    /\ UNCHANGED <<store, emitted, commits, calls, res, procIn>>

NextStream == \E failAt \in 0 .. MaxBatch : Handler(failAt)

SpecStream == InitStream /\ [][NextStream]_vars

----------------------------------------------------------------------------
\* recalculate on a partition that also holds rows the engine did not write
\* for the entity's log.

\* The table after append(id, ...evs) committed on table st.
AfterAppend(st, id, evs) ==
    LET stateRecord == get(st, id)
        state == IF stateRecord # <<>> THEN stateRecord[1].item ELSE Null
        seq == IF stateRecord # <<>> THEN stateRecord[1].record._seq ELSE 0
        c == calculate(DbFacet, id, state, seq, <<>>, evs)
    IN TransactWrite(putItems(c.hr, seq, c.newInboundRecords, c.newOutboundRecords),
                     st).store

\* Tables the engine leaves behind: empty, after one append, after two.
StoredTables ==
    {{}, AfterAppend({}, "id", <<Event("Tick", 1)>>),
     AfterAppend(AfterAppend({}, "id", <<Event("Tick", 1)>>), "id",
                 <<Event("U", 1), Event("Tick", 1)>>)}

\* Rows under the entity's partition key that are not of its log: one with
\* an unknown sort key, and an outbound row of an event named like an
\* inbound type.
StrayRows ==
    {newRecord(DbFacet, "id", 4, <<"unknown range">>, "Tick", 1),
     newOutboundRecord(DbFacet, "id", 1, 5, "Tick", 1)}

InitStray ==
    /\ store \in {t \cup extra : t \in StoredTables, extra \in SUBSET StrayRows}
    /\ emitted = <<>>
    /\ commits = NoCommits
    /\ calls = EmptyBag
    /\ res = NoResult
    /\ procIn = <<>>
    /\ procOut = <<>>

NextStray ==
    \/ \E id \in Ids, in \in FacetInputs :
          Recalculate(in[1], id, in[2])
    \/ \E c \in BagToSet(calls) : TransactWriteCommit(c)
    \/ \E c \in BagToSet(calls) : TransactWriteCancel(c)

SpecStray == InitStray /\ [][NextStray]_vars

----------------------------------------------------------------------------
\* Views of the table used by the properties.

Entity(id) == {r \in store : r._id = facetId(DbFacet, id)}
StateRows(id) == {r \in Entity(id) : isStateRecord(r)}
InboundRows(id) == {r \in Entity(id) : isInboundRecord(r)}
OutboundRows(id) == {r \in Entity(id) : isOutboundRecord(r)}

\* Sequence of the durable state row; 0 for an entity without one, the
\* prior sequence append and recalculate use for it.
DurableSeq(id) ==
    IF StateRows(id) = {} THEN 0 ELSE (CHOOSE r \in StateRows(id) : TRUE)._seq

MaxOf(S) == IF S = {} THEN 0 ELSE CHOOSE m \in S : \A x \in S : x <= m

\* The step in which the table answers the transaction of operation c.
Answered(c) == BagIn(c, calls) /\ calls' = calls (-) SetToBag({c})
Committed(c) == Answered(c) /\ res'.status = "ok"

\* The step in which an operation ends with an error.
Failed == res'.status = "error" /\ res' # res

\* The state row the table holds for the entity after the step.
StateSeqAfter(id) ==
    {r._seq : r \in {x \in store' : x._id = facetId(DbFacet, id) /\ isStateRecord(x)}}

----------------------------------------------------------------------------
\* C1 (as stated): no two accepted transactions of an entity write the same
\* state sequence.
C1_NoTwoCommitsSameSeq ==
    [][\A c \in BagToSet(calls) :
          Committed(c) => res'.output.seq \notin commits.seqs]_vars

\* C1 (amended): a transaction that appends at least one event writes a state
\* sequence above every sequence written before, and a transaction whose
\* previousSeq differs from the sequence of the durable state row is
\* cancelled: of the writers racing from one prior sequence with events, one
\* succeeds and the others fail.
C1_OneCommitPerSeq ==
    [][\A c \in BagToSet(calls) :
          /\ (Committed(c) /\ c.events # <<>>) =>
                \A s \in commits.seqs : res'.output.seq > s
          /\ (/\ Answered(c)
              /\ StateRows(c.id) # {}
              /\ c.seq # DurableSeq(c.id))
             => res'.status = "error" /\ res'.error = "TransactionCanceledException"]_vars

C1_Witness ==
    /\ res.status = "error"
    /\ res.error = "TransactionCanceledException"
    /\ \E s \in commits.seqs : s >= 1

\* C2: an operation that ends with an error (cancelled transaction,
\* validation error, capacity error) leaves the table as it was and puts
\* nothing on the change stream.
C2_FailedWriteChangesNothing ==
    [][Failed => store' = store /\ emitted' = <<>>]_vars

C2_Witness ==
    /\ res.status = "error"
    /\ res.error = "TransactionCanceledException"
    /\ emitted = <<>>
    /\ store # {}

\* C3: the inbound and outbound rows in the table are exactly the rows of the
\* accepted transactions, and the state row in the table is the state row of
\* the last accepted transaction: rows of a transaction are present together
\* with its state row or not at all.
C3_RowsIffCommitted ==
    /\ {r \in store : isInboundRecord(r) \/ isOutboundRecord(r)} = commits.rows
    /\ \A r \in store : isStateRecord(r) => commits.state = <<r>>
    /\ commits.state # <<>> => commits.state[1] \in store
    /\ commits.state = <<>> => store = {}

C3_Witness ==
    /\ res.status = "error"
    /\ res.error = "TransactionCanceledException"
    /\ \E r \in commits.rows : isOutboundRecord(r)
    /\ \E r \in commits.rows : isInboundRecord(r)

\* C4 (as stated): an accepted transaction of n events with prior sequence p
\* writes the state row at p + n and returns p + n, and afterwards the state
\* row's sequence is the largest sequence among the entity's inbound rows.
C4_StateSeqIsMaxInbound ==
    [][\A c \in BagToSet(calls) :
          Committed(c) =>
            /\ StateSeqAfter(c.id) = {c.seq + Len(c.events)}
            /\ res'.output.seq = c.seq + Len(c.events)
            /\ StateSeqAfter(c.id) =
                  {MaxOf({r._seq : r \in {x \in store' : isInboundRecord(x)}})}]_vars

\* C5 (as stated): the inbound rows of an entity with a state row carry the
\* sequences 1 .. state sequence, each once.
C5_InboundContiguous ==
    \A id \in Ids :
        StateRows(id) # {} =>
            /\ {r._seq : r \in InboundRows(id)} = 1 .. DurableSeq(id)
            /\ Cardinality(InboundRows(id)) = DurableSeq(id)

\* C6 (as stated): the transaction of an appendTo whose seq differs from the
\* entity's durable sequence is cancelled and changes no row.
C6_WrongSeqIsRejected ==
    [][\A c \in BagToSet(calls) :
          (/\ Answered(c)
           /\ c.op = "appendTo"
           /\ c.seq # DurableSeq(c.id))
          => /\ res'.status = "error"
             /\ store' = store]_vars

\* C7: an entity has at most one state row, and exactly one once a
\* transaction of the entity has been accepted.
C7_SingleStateRow ==
    \A id \in Ids :
        /\ Cardinality(StateRows(id)) <= 1
        /\ (commits.state # <<>> /\ commits.state[1]._id = facetId(DbFacet, id))
              => Cardinality(StateRows(id)) = 1

C7_Witness ==
    /\ Cardinality(commits.seqs) >= 2
    /\ \A id \in Ids : Cardinality(StateRows(id)) = 1

\* C8: an accepted transaction with prior sequence p and new events
\* e_0 .. e_(n-1) adds exactly n inbound rows, the i-th at sequence p + 1 + i
\* with the event's type and payload, and leaves the state row at p + n.
C8_InboundSequences ==
    [][\A c \in BagToSet(calls) :
          Committed(c) =>
            LET p == c.seq
                evs == c.events
                added == store' \ store
            IN /\ \A i \in 1 .. Len(evs) :
                     \E r \in added :
                        /\ r._rng = <<"INBOUND", evs[i].type, p + 1 + (i - 1)>>
                        /\ r._seq = p + 1 + (i - 1)
                        /\ r._typ = evs[i].type
                        /\ r._itm = JSONstringify(evs[i].event)
               /\ Cardinality({r \in added : isInboundRecord(r)}) = Len(evs)
               /\ StateSeqAfter(c.id) = {p + Len(evs)}]_vars

C8_Witness ==
    /\ res.status = "ok"
    /\ res.n = 2
    /\ res.previousSeq >= 1
    /\ \E r \in InboundRows("id") : r._seq = res.previousSeq + 2

\* C9: an accepted transaction adds one outbound row per returned new
\* outbound event, the k-th (0-based) under index k, all at the state
\* sequence p + n of the transaction.
C9_OutboundSeqAndIndex ==
    [][\A c \in BagToSet(calls) :
          Committed(c) =>
            LET p == c.seq
                n == Len(c.events)
                out == res'.output.newOutboundEvents
                added == store' \ store
            IN /\ \A k \in 1 .. Len(out) :
                     \E r \in added :
                        /\ r._rng = <<"OUTBOUND", out[k].type, p + n, k - 1>>
                        /\ r._seq = p + n
                        /\ r._typ = out[k].type
                        /\ r._itm = JSONstringify(out[k].event)
               /\ Cardinality({r \in added : isOutboundRecord(r)}) = Len(out)]_vars

C9_Witness ==
    /\ res.status = "ok"
    /\ Len(res.output.newOutboundEvents) >= 2
    /\ res.output.seq >= 2
    /\ Cardinality({r \in OutboundRows("id") : r._seq = res.output.seq}) >= 2

\* C10: every event published while the reducer handles index i of
\* past ++ new is in pastOutboundEvents and not in newOutboundEvents when
\* i < Len(past), and the other way round otherwise; both lists are in
\* publish order (rising index, and the reducer's order within one index).
PublishedAt(list, i) ==
    LET at == SelectSeq(list, LAMBDA e : e.event = i)
    IN [k \in 1 .. Len(at) |-> at[k].type]

PublishOrders == {<<"ticked">>, <<"first", "second">>}

C10_PublishRouting ==
    procOut # <<>> =>
        LET in == procIn[1]
            out == procOut[1]
            all == in.pastInboundEvents \o in.newInboundEvents
            stateIndex == Len(in.pastInboundEvents)
        IN /\ \A i \in 0 .. Len(all) - 1 :
                 LET here == IF i < stateIndex THEN out.pastOutboundEvents
                             ELSE out.newOutboundEvents
                     other == IF i < stateIndex THEN out.newOutboundEvents
                              ELSE out.pastOutboundEvents
                 IN /\ PublishedAt(other, i) = <<>>
                    /\ IF all[i + 1].type \in RuleTypes
                       THEN PublishedAt(here, i) \in PublishOrders
                       ELSE PublishedAt(here, i) = <<>>
           /\ \A l \in {out.pastOutboundEvents, out.newOutboundEvents} :
                 \A a, b \in 1 .. Len(l) : a < b => l[a].event <= l[b].event

C10_Witness ==
    /\ procOut # <<>>
    /\ Len(procOut[1].pastOutboundEvents) >= 2
    /\ Len(procOut[1].newOutboundEvents) >= 2
    /\ Len(procIn[1].pastInboundEvents) = 1

\* C11: an accepted recalculate adds outbound rows for exactly the events of
\* newOutboundEvents, which were published while handling new events (index
\* at or above the number of stored inbound rows); the events published while
\* replaying stored inbound rows are returned in pastOutboundEvents and get
\* no row, so a recalculate without new events adds no outbound row.
C11_PastOutboundNotWritten ==
    [][\A c \in BagToSet(calls) :
          (Committed(c) /\ c.op = "recalculate") =>
            LET pastLen == Cardinality(InboundRows(c.id))
                out == res'.output
                added == {r \in store' \ store : isOutboundRecord(r)}
            IN /\ \A k \in 1 .. Len(out.newOutboundEvents) :
                     out.newOutboundEvents[k].event >= pastLen
               /\ \A k \in 1 .. Len(out.pastOutboundEvents) :
                     out.pastOutboundEvents[k].event < pastLen
               /\ Cardinality(added) = Len(out.newOutboundEvents)
               /\ \A r \in added :
                     \E k \in 1 .. Len(out.newOutboundEvents) :
                        /\ r._typ = out.newOutboundEvents[k].type
                        /\ r._itm = JSONstringify(out.newOutboundEvents[k].event)
               /\ (c.events = <<>> =>
                     OutboundRows(c.id) = {r \in store' : isOutboundRecord(r)})]_vars

C11_Witness ==
    /\ res.status = "ok"
    /\ res.op = "recalculate"
    /\ res.output.pastOutboundEvents # <<>>
    /\ res.output.newOutboundEvents # <<>>
    /\ OutboundRows("id") # {}

\* C12: events of a type without a rule are skipped: process returns the
\* state and the outbound events it returns for the lists without them, every
\* reducer being called in the same order (the published currentIndex is the
\* event's position in the list with the unknown events in place).
WithoutUnknown(events) == SelectSeq(events, LAMBDA e : e.type # "U")

KnownPositions(events) ==
    SelectSeq([i \in 1 .. Len(events) |-> i - 1], LAMBDA i : events[i + 1].type # "U")

AtPositions(published, events) ==
    [k \in 1 .. Len(published) |->
        Event(published[k].type, KnownPositions(events)[published[k].event + 1])]

C13_FoldAssociative ==
    (procOut # <<>> /\ procIn[1].state = Null) =>
        LET in == procIn[1]
            ofPast == process(Null, in.pastInboundEvents, <<>>).state
        IN procOut[1].state = process(ofPast, <<>>, in.newInboundEvents).state

\* C14: sortRecords returns the rows it was given in ascending _seq order,
\* and rows of equal _seq in the order they were given (stable sort).
C14_SortBySeqStable ==
    procOut # <<>> =>
        LET in == procIn[1]
            out == procOut[1]
        IN /\ Len(out) = Len(in)
           /\ \A i \in 1 .. Len(out) - 1 : out[i]._seq <= out[i + 1]._seq
           /\ \A v \in 1 .. 3 :
                 SelectSeq(out, LAMBDA r : r._seq = v) = SelectSeq(in, LAMBDA r : r._seq = v)

C14_Witness ==
    /\ procIn[1] = <<newInboundRecord(DbFacet, "id", 2, "Tick", 1),
                     newInboundRecord(DbFacet, "id", 1, "U", 1),
                     newInboundRecord(DbFacet, "id", 1, "Tick", 1)>>
    /\ procOut = <<(<<newInboundRecord(DbFacet, "id", 1, "U", 1),
                      newInboundRecord(DbFacet, "id", 1, "Tick", 1),
                      newInboundRecord(DbFacet, "id", 2, "Tick", 1)>>)>>

\* The events of a set of inbound rows, by ascending _seq.
RECURSIVE InSeqOrder(_)
InSeqOrder(S) ==
    IF S = {} THEN <<>>
    ELSE LET m == CHOOSE x \in S : \A y \in S : x._seq <= y._seq
         IN <<Event(m._typ, JSONparse(m._itm))>> \o InSeqOrder(S \ {m})

\* C15: an accepted recalculate took its prior sequence from the stored state
\* row (0 without one), returns and stores the item reduced from the
\* initializer over the stored inbound rows in _seq order followed by the new
\* events, whatever payload the state row held, and returns the prior
\* sequence plus the number of new events.
C15_RecalculateFromInitializer ==
    [][\A c \in BagToSet(calls) :
          (Committed(c) /\ c.op = "recalculate") =>
            LET item == process(Null, InSeqOrder(InboundRows(c.id)), c.events).state
            IN /\ c.seq = DurableSeq(c.id)
               /\ res'.output.seq = DurableSeq(c.id) + Len(c.events)
               /\ res'.output.item = item
               /\ \A r \in store' :
                     (r._id = facetId(DbFacet, c.id) /\ isStateRecord(r))
                        => r._itm = JSONstringify(item) /\ r._seq = res'.output.seq]_vars

C15_Witness ==
    /\ res.status = "ok"
    /\ res.op = "recalculate"
    /\ res.previousSeq >= 1
    /\ res.n >= 1
    /\ res.output.pastOutboundEvents # <<>>
    /\ \E r \in StateRows("id") : r._seq = res.previousSeq + res.n

\* The step in which operation c is started and its transaction sent.
Started(c) == calls' = calls (+) SetToBag({c})

\* C16: the transaction append sends and the output it will return are those
\* of appendTo with the decoded item and the _seq of the state row it read,
\* or with null and 0 when there is no state row; no past event is replayed.
C16_AppendIsAppendToOfStoredState ==
    [][\A c \in BagToSet(calls') :
          (Started(c) /\ c.op = "append") =>
            LET row == StateRows(c.id)
                state == IF row = {} THEN Null
                         ELSE JSONparse((CHOOSE r \in row : TRUE)._itm)
                seq == IF row = {} THEN 0 ELSE (CHOOSE r \in row : TRUE)._seq
                asAppendTo == calculate(c.name, c.id, state, seq, <<>>, c.events)
            IN /\ c.seq = seq
               /\ c.items = putItems(asAppendTo.hr, seq, asAppendTo.newInboundRecords,
                                      asAppendTo.newOutboundRecords)
               /\ c.output = asAppendTo.output
               /\ c.output.item = process(state, <<>>, c.events).state
               /\ c.output.pastOutboundEvents = <<>>]_vars

C16_Witness ==
    /\ res.status = "ok"
    /\ res.op = "append"
    /\ res.previousSeq >= 1
    /\ res.n >= 1
    /\ res.output.item = 0

\* C17: an append accepted on an entity without a state row used the prior
\* sequence 0: with n new events it leaves the state row at sequence n and
\* the inbound rows at sequences 1 .. n.
C17_FirstAppendStartsAtZero ==
    [][\A c \in BagToSet(calls) :
          (Committed(c) /\ c.op = "append" /\ StateRows(c.id) = {}) =>
            LET n == Len(c.events)
                inbound == {r \in store' : r._id = facetId(DbFacet, c.id)
                                            /\ isInboundRecord(r)}
            IN /\ c.seq = 0
               /\ res'.output.seq = n
               /\ StateSeqAfter(c.id) = {n}
               /\ {r._seq : r \in inbound} = 1 .. n
               /\ Cardinality(inbound) = n]_vars

C17_Witness ==
    /\ res.status = "ok"
    /\ res.op = "append"
    /\ res.previousSeq = 0
    /\ res.n = 2
    /\ commits.count = 1
    /\ {r._seq : r \in InboundRows("id")} = {1, 2}
    /\ DurableSeq("id") = 2

\* C18 (as stated): the state row of an entity, once created, has a sequence
\* of at least 1.
C18_CreatedAtSeqOne ==
    \A id \in Ids : StateRows(id) # {} => DurableSeq(id) >= 1

\* C18 (amended): the first accepted transaction of an entity creates its
\* state row at previousSeq + n, which is at least 1 when the transaction
\* carries an event; the table changes only in the step that accepts a
\* transaction, and no step removes a row, so the state row is never deleted.
C18_CreatedByFirstCommit ==
    [][/\ \A c \in BagToSet(calls) :
             (Committed(c) /\ StateRows(c.id) = {}) =>
                /\ StateSeqAfter(c.id) = {c.seq + Len(c.events)}
                /\ (c.events # <<>> => \A s \in StateSeqAfter(c.id) : s >= 1)
       /\ (store' # store => \E c \in BagToSet(calls) : Committed(c))
       /\ \A r \in store : \E x \in store' : Key(x) = Key(r)]_vars

C18_Witness ==
    /\ res.status = "ok"
    /\ res.op = "recalculate"
    /\ res.previousSeq = 0
    /\ res.n >= 1
    /\ commits.count = 1
    /\ DurableSeq("id") = res.n

\* C19 (as stated): a transaction without new events that is accepted
\* rewrites the state row at previousSeq and adds no inbound row, and a
\* transaction without new events whose previousSeq differs from the durable
\* sequence of the entity is cancelled.
C19_ZeroEventCommit ==
    [][\A c \in BagToSet(calls) :
          (Answered(c) /\ c.events = <<>>) =>
            /\ res'.status = "ok" =>
                  /\ StateSeqAfter(c.id) = {c.seq}
                  /\ res'.output.seq = c.seq
                  /\ \E r \in store' : /\ r._id = facetId(DbFacet, c.id)
                                         /\ isStateRecord(r)
                                         /\ r._itm = JSONstringify(c.output.item)
                  /\ {r \in store' : isInboundRecord(r)} = {r \in store : isInboundRecord(r)}
            /\ c.seq # DurableSeq(c.id) =>
                  res'.status = "error" /\ store' = store]_vars

\* C20: the table accepts the transaction of putState exactly when no item
\* is stored under the state row's key or the stored one has _seq =
\* previousSeq, and no item is stored under the key of any inbound or
\* outbound row of the transaction; an accepted transaction stores all its
\* rows, a cancelled one none.
C20_CommitIffConditions ==
    [][\A c \in BagToSet(calls) :
          Answered(c) =>
            LET rows == [i \in 1 .. Len(c.items) |-> c.items[i].Item]
                state == rows[Len(rows)]
                stateOk == \A x \in store : Key(x) = Key(state) => x._seq = c.seq
                rowsOk == \A i \in 1 .. Len(rows) - 1 :
                             \A x \in store : Key(x) # Key(rows[i])
            IN /\ res'.status = "ok" <=> (stateOk /\ rowsOk)
               /\ res'.status = "ok" => \A i \in 1 .. Len(rows) : rows[i] \in store'
               /\ res'.status # "ok" => store' = store /\ emitted' = <<>>]_vars

C20_Witness ==
    /\ res.status = "error"
    /\ res.error = "TransactionCanceledException"
    /\ StateRows("id") # {}
    /\ res.previousSeq = DurableSeq("id")
    /\ InboundRows("id") # {}

\* What putState requires of its arguments.
ValidPutStateArgs(state, inbound, outbound) ==
    /\ state._rng = <<"STATE">> /\ state._facet = DbFacet
    /\ \A i \in 1 .. Len(inbound) :
          inbound[i]._rng[1] = "INBOUND" /\ inbound[i]._facet = DbFacet
    /\ \A i \in 1 .. Len(outbound) :
          outbound[i]._rng[1] = "OUTBOUND" /\ outbound[i]._facet = DbFacet

ValidationErrors ==
    {"putState: invalid state record", "putState: state record has mismatched facet",
     "putState: invalid inbound record", "putState: invalid facet for inbound record",
     "putState: invalid outbound record", "putState: invalid facet for outbound record"}

\* C21: putState called with a state argument that is not a state record of
\* the adapter's facet, or an inbound (outbound) argument that is not an
\* inbound (outbound) record of that facet, ends with a validation error,
\* sends no transaction and leaves the table unchanged.
C21_ValidationBeforeSend ==
    [][\A in \in PutStateInputs, previousSeq \in PutStateSeqs :
          (/\ ~ValidPutStateArgs(in[1], in[2], in[3])
           /\ PutState(in[1], previousSeq, in[2], in[3]))
          => /\ res'.status = "error"
             /\ res'.error \in ValidationErrors
             /\ calls' = calls
             /\ store' = store
             /\ emitted' = <<>>]_vars

C21_Witness ==
    /\ res.status = "error"
    /\ res.error = "putState: invalid facet for outbound record"
    /\ store # {}

\* C22: putState called with valid records ends with the size error, sends
\* no transaction and leaves the table unchanged when 1 + |inbound| +
\* |outbound| exceeds 25, and sends the transaction when the count is 25 or
\* less.
C22_TransactionSizeLimit ==
    [][\A in \in PutStateInputs, previousSeq \in PutStateSeqs :
          (/\ ValidPutStateArgs(in[1], in[2], in[3])
           /\ PutState(in[1], previousSeq, in[2], in[3]))
          => IF 1 + Len(in[2]) + Len(in[3]) > 25
             THEN /\ res'.status = "error"
                  /\ res'.error = "putState: cannot exceed maximum DynamoDB transaction count"
                  /\ calls' = calls
                  /\ store' = store
                  /\ emitted' = <<>>
             ELSE /\ res'.status = "none"
                  /\ \E c \in BagToSet(calls') :
                        /\ Started(c)
                        /\ Len(c.items) = 1 + Len(in[2]) + Len(in[3])]_vars

C22_Witness ==
    /\ res.status = "error"
    /\ res.error = "putState: cannot exceed maximum DynamoDB transaction count"
    /\ Cardinality(store) = 25

\* C23: every record of the transaction an append, appendTo or recalculate
\* sends carries the name of the Facet object in _facet and the partition key
\* <name>/<id> of the entity; an append on a Facet object whose name is not
\* the adapter's facet is refused for that name.
C23_RecordsCarryFacetName ==
    [][/\ \A c \in BagToSet(calls') :
             (Started(c) /\ c.op \in {"append", "appendTo", "recalculate"}) =>
                \A i \in 1 .. Len(c.items) :
                   /\ c.items[i].Item._facet = c.name
                   /\ c.items[i].Item._id = <<c.name, c.id>>
       /\ \A id \in Ids, in \in AppendInputs :
             (Append_(in[1], id, in[2]) /\ in[1] # DbFacet) =>
                /\ res'.error = "putState: state record has mismatched facet"
                /\ calls' = calls]_vars

C23_Witness ==
    \E c \in BagToSet(calls) :
       /\ c.op = "recalculate"
       /\ Len(c.items) >= 3
       /\ \E i \in 1 .. Len(c.items) : isOutboundRecord(c.items[i].Item)
       /\ \E i \in 1 .. Len(c.items) : isInboundRecord(c.items[i].Item)

\* C24: get returns null when the table holds no state row under <facet>/<id>
\* and otherwise that row with its payload decoded; it changes no row, sends
\* no transaction and puts nothing on the stream.
C24_GetReadsStateRow ==
    [][\A id \in GetIds :
          Get(id) =>
            LET rows == {r \in store : r._id = <<DbFacet, id>> /\ r._rng = <<"STATE">>}
            IN /\ rows = {} => procOut'[1] = <<>>
               /\ \A r \in rows :
                     /\ Len(procOut'[1]) = 1
                     /\ procOut'[1][1].record = r
                     /\ JSONstringify(procOut'[1][1].item) = r._itm
               /\ store' = store
               /\ calls' = calls
               /\ emitted' = emitted]_vars

C24_Witness ==
    /\ procOut # <<>>
    /\ procOut[1] # <<>>
    /\ procOut[1][1].item = 0
    /\ procOut[1][1].record \in store
    /\ procOut[1][1].record._seq = 2

\* The fold of the rule table over a list of events from a given state.
RECURSIVE Reduce(_, _)
Reduce(state, events) ==
    IF events = <<>> THEN state
    ELSE Reduce(IF Head(events).type = "Tick" THEN (state + Head(events).event) % Modulus
                ELSE state,
                Tail(events))

\* C25 (as stated): process starts from the initializer when the state
\* argument is null and from the state argument otherwise.
C25_InitializerIffNull ==
    procOut # <<>> =>
        LET in == procIn[1]
            start == IF in.state = Null THEN initial ELSE in.state
        IN procOut[1].state = Reduce(start, in.pastInboundEvents \o in.newInboundEvents)

\* C26: appendTo reads nothing and sends exactly one transaction, built from
\* the caller's state and seq alone: the state Put is conditioned on the
\* caller's seq and carries the fold of the new events from the caller's
\* state, whatever the table holds.
C26_AppendToUsesCallerState ==
    [][BagCardinality(calls') = BagCardinality(calls) + 1 =>
       \A id \in Ids, in \in FacetInputs :
          (\E c \in BagToSet(calls') : c.op = "appendTo" /\ c.events = in[2]) =>
          \A state \in AppendToStates, seq \in AppendToSeqs :
             LET p == process(state, <<>>, in[2])
                 n == Len(in[2])
             IN ((\E c \in BagToSet(calls') : c.output.item = p.state)
                 /\ AppendTo(in[1], id, state, seq, in[2])) =>
                  /\ store' = store
                  /\ \E c \in BagToSet(calls') :
                        /\ c.op = "appendTo" /\ c.seq = seq
                        /\ c.output.item = p.state
                        /\ c.output.seq = seq + n
                        /\ Len(c.items) = n + Len(p.newOutboundEvents) + 1
                        /\ LET put == c.items[Len(c.items)] IN
                           /\ put.ExpressionAttributeValues = <<seq>>
                           /\ put.Item = newStateRecord(in[1], id, seq + n, p.state)
                        /\ \A i \in 1 .. n :
                              c.items[i].Item =
                                newInboundRecord(in[1], id, seq + i,
                                                 in[2][i].type, in[2][i].event)
                        /\ Started(c)]_vars

\* An appendTo in flight whose seq and state are not the stored ones.
C26_Witness ==
    \E c \in BagToSet(calls) :
        /\ c.op = "appendTo" /\ c.seq = 0 /\ c.output.item = 2
        /\ DurableSeq(c.id) = 2
        /\ \A r \in StateRows(c.id) : JSONparse(r._itm) # 2

PutStateErrors ==
    ValidationErrors \cup {"putState: cannot exceed maximum DynamoDB transaction count"}

\* C27: an error of a store call is the operation's outcome, unchanged and
\* without a result: a rejected read ends append and recalculate with the
\* client's error; an append that sends nothing because putState refuses
\* its arguments ends with putState's message; a cancelled transaction ends
\* it with the cancellation, which is none of putState's validation messages.
C27_StoreErrorsPropagate ==
    [][/\ \A op \in ReadingOps, id \in Ids, error \in StoreErrors :
             ReadFails(op, id, error) =>
                /\ res'.status = "error" /\ res'.error = error
                /\ res'.output = NoOutput
                /\ calls' = calls /\ store' = store
       /\ \A id \in Ids, in \in AppendInputs :
             LET c == calculate(in[1], id,
                                IF get(store, id) # <<>> THEN get(store, id)[1].item
                                ELSE Null,
                                DurableSeq(id), <<>>, in[2])
                 check == putStateCheck(c.hr, c.newInboundRecords, c.newOutboundRecords)
             IN (calls' = calls /\ res' # NoResult /\ store' = store
                 /\ Append_(in[1], id, in[2]) /\ check # "ok") =>
                   /\ res'.status = "error" /\ res'.error = check
                   /\ res'.error \in PutStateErrors
                   /\ res'.output = NoOutput
       /\ \A c \in BagToSet(calls) :
             (Answered(c) /\ ~TransactWrite(c.items, store).ok) =>
                /\ res'.status = "error"
                /\ res'.error = "TransactionCanceledException"
                /\ res'.error \notin PutStateErrors \cup StoreErrors
                /\ res'.output = NoOutput
                /\ store' = store
       /\ res'.status = "error" => res'.output = NoOutput]_vars

\* A transaction was cancelled on a table that holds a newer state row.
C27_Witness ==
    /\ res.status = "error" /\ res.error = "TransactionCanceledException"
    /\ DurableSeq("id") > res.previousSeq

\* The bus events of the records of a batch that satisfy keep, in stream
\* order: detail type _typ, detail _itm.
Forwarded(batch, keep(_)) ==
    LET rs == SelectSeq(batch, keep) IN
    [i \in 1 .. Len(rs) |->
        [EventBusName |-> "default", Source |-> "finance-v2",
         DetailType |-> rs[i].dynamodb.NewImage._typ.S,
         Detail |-> rs[i].dynamodb.NewImage._itm.S]]

HasString(r, k) ==
    /\ "NewImage" \in DOMAIN r.dynamodb
    /\ k \in DOMAIN r.dynamodb.NewImage
    /\ "S" \in DOMAIN r.dynamodb.NewImage[k]

OutboundWithStrings(r) ==
    /\ \A k \in {"_rng", "_facet", "_typ", "_itm"} : HasString(r, k)
    /\ startsWith(r.dynamodb.NewImage._rng.S, "OUTBOUND")

OutboundWithNonEmptyStrings(r) ==
    /\ OutboundWithStrings(r)
    /\ \A k \in {"_rng", "_facet", "_typ", "_itm"} : r.dynamodb.NewImage[k].S # ""

\* C28 (as stated): an invocation that completes has published one event for
\* each record whose new image has a sort key starting with OUTBOUND and
\* string _facet, _typ and _itm, in stream order, and nothing else.
C28_ForwardsStringOutbound ==
    (procOut # <<>> /\ procOut[1].status = "ok")
        => procOut[1].bus = Forwarded(procIn[1], OutboundWithStrings)

\* C28 (amended): the same for the records whose four attributes are
\* non-empty strings; an invocation the bus fails has published the events
\* before the refused one, in stream order, and no other.
C28_ForwardsNonEmptyOutbound ==
    procOut # <<>> =>
        LET want == Forwarded(procIn[1], OutboundWithNonEmptyStrings)
            bus == procOut[1].bus
        IN /\ procOut[1].status = "ok" => bus = want
           /\ procOut[1].status = "error" =>
                 Len(bus) < Len(want) /\ bus = SubSeq(want, 1, Len(bus))
           /\ \A i \in 1 .. Len(bus) :
                 \E j \in 1 .. Len(procIn[1]) :
                    /\ OutboundWithStrings(procIn[1][j])
                    /\ bus[i].DetailType = procIn[1][j].dynamodb.NewImage._typ.S
                    /\ bus[i].Detail = procIn[1][j].dynamodb.NewImage._itm.S

\* A completed invocation on a batch with a state row between two outbound
\* rows published the two, in order.
C28_Witness ==
    /\ procOut # <<>> /\ procOut[1].status = "ok"
    /\ Len(procIn[1]) = 3
    /\ stringOf(procIn[1][2], "_rng") = "STATE"
    /\ Len(procOut[1].bus) = 2
    /\ procOut[1].bus[1].DetailType = "second"
    /\ procOut[1].bus[2].DetailType = "first"

\* The rows of the entity's state and inbound log.
LogRows(st) == {r \in st : r._rng[1] \in {"STATE", "INBOUND"}}

\* C29: the transaction and the result recalculate prepares are those it
\* would prepare on the table without the rows whose sort key is neither
\* STATE nor INBOUND...: the item is the fold of the stored inbound events
\* and the new ones from the initializer, the sequence is the state row's
\* plus the number of new events.
C29_StrayRowsIgnored ==
    [][\A id \in Ids, in \in FacetInputs :
          Recalculate(in[1], id, in[2]) =>
            LET log == records(LogRows(store), id)
                seq == IF log.state # <<>> THEN log.state[1]._seq ELSE 0
                past == [i \in 1 .. Len(log.inboundEvents) |->
                            Event(log.inboundEvents[i]._typ,
                                  JSONparse(log.inboundEvents[i]._itm))]
            IN \E c \in BagToSet(calls') :
                  /\ Started(c)
                  /\ c.seq = seq
                  /\ c.output.seq = seq + Len(in[2])
                  /\ c.output.item = Reduce(initial, past \o in[2])
                  /\ c.items[Len(c.items)].Item =
                        newStateRecord(in[1], id, seq + Len(in[2]), c.output.item)
                  /\ Len(c.items) = Len(in[2]) + Len(c.output.newOutboundEvents) + 1]_vars

\* A recalculate in flight on a table that holds the state row at 2, an
\* unknown row and a stored outbound row of type Tick.
C29_Witness ==
    /\ StrayRows \subseteq store
    /\ \E c \in BagToSet(calls) :
          /\ c.op = "recalculate" /\ c.seq = 2 /\ Len(c.events) = 1
          /\ c.output.seq = 3

\* C30: the transaction of an appendTo with n events and caller's seq s that
\* the table answers while the entity has no state row is accepted whatever
\* s is, provided no row it adds exists: the state row is then at s + n and
\* the entity's inbound rows are those at s + 1 .. s + n.
C30_AppendToOnFreshEntity ==
    [][\A c \in BagToSet(calls) :
          (/\ Answered(c) /\ c.op = "appendTo"
           /\ StateRows(c.id) = {})
          => LET n == Len(c.events) IN
             /\ res'.status = "ok"
             /\ res'.previousSeq = c.seq
             /\ \E r \in store' :
                   /\ r._id = facetId(DbFacet, c.id) /\ r._rng = <<"STATE">>
                   /\ r._seq = c.seq + n
             /\ {r._seq : r \in {x \in store' : x._id = facetId(DbFacet, c.id)
                                                  /\ x._rng[1] = "INBOUND"}}
                   = (c.seq + 1) .. (c.seq + n)]_vars

\* An appendTo of one event with seq 1 created the entity: state row at 2.
C30_Witness ==
    /\ res.status = "ok" /\ res.op = "appendTo" /\ res.previousSeq = 1 /\ res.n = 1
    /\ commits.count = 1
    /\ DurableSeq("id") = 2

\* C31 (as stated): after append and recalculate calls only, the stored
\* state item of an entity is the reduction of the initializer over its
\* inbound rows in sequence order, and an accepted recalculate with no new
\* events leaves the state row as it was.
C31_StateIsReductionOfLog ==
    [][/\ \A id \in Ids :
             \A r \in {x \in store' : x._id = facetId(DbFacet, id) /\ x._rng = <<"STATE">>} :
                JSONparse(r._itm) =
                   Reduce(initial,
                          InSeqOrder({x \in store' : x._id = facetId(DbFacet, id)
                                                     /\ x._rng[1] = "INBOUND"}))
       /\ \A c \in BagToSet(calls) :
             (Committed(c) /\ c.op = "recalculate" /\ c.events = <<>>
              /\ StateRows(c.id) # {})
             => {x \in store' : x._rng = <<"STATE">>} = {x \in store : x._rng = <<"STATE">>}]_vars

\* C32: an accepted recalculate read the durable sequence and returns the
\* item and the past outbound events of a replay of every inbound row the
\* table holds when it is accepted; and once a transaction with at least one
\* event is accepted, the transaction of every recalculate still in flight
\* would be cancelled.
C32_RecalculateSeesWholeLog ==
    [][/\ \A c \in BagToSet(calls) :
             (Committed(c) /\ c.op = "recalculate") =>
                LET all == process(Null, InSeqOrder(InboundRows(c.id)), c.events)
                IN /\ c.seq = DurableSeq(c.id)
                   /\ res'.output.item = all.state
                   /\ res'.output.pastOutboundEvents = all.pastOutboundEvents
       /\ \A d \in BagToSet(calls) :
             (Committed(d) /\ Len(d.events) >= 1) =>
                \A c \in BagToSet(calls') :
                   c.op = "recalculate" => ~TransactWrite(c.items, store').ok]_vars

\* A recalculate is in flight and a transaction with events was accepted
\* after it read.
C32_Witness ==
    /\ commits.count >= 1
    /\ \E c \in BagToSet(calls) :
          /\ c.op = "recalculate"
          /\ c.seq < DurableSeq(c.id)
          /\ InboundRows(c.id) # {}

\* C33: no step lowers the sequence of an entity's state row, and the
\* acceptance of a transaction with at least one event raises it (an entity
\* without a state row counts as sequence 0 and gets a row with a sequence of
\* at least 1).
C33_StateSeqMonotonic ==
    [][/\ \A id \in Ids :
             /\ StateRows(id) # {} => StateSeqAfter(id) # {}
             /\ \A after \in StateSeqAfter(id) : after >= DurableSeq(id)
       /\ \A c \in BagToSet(calls) :
             (Committed(c) /\ Len(c.events) >= 1) =>
                \A after \in StateSeqAfter(c.id) : after > DurableSeq(c.id)]_vars

\* Two transactions with events were accepted: the state row is at 2 or
\* beyond.
C33_Witness ==
    /\ commits.count = 2
    /\ Cardinality(commits.seqs) = 2
    /\ DurableSeq("id") >= 2
    /\ res.status = "ok" /\ res.n >= 1

\* C34: for every transaction in flight, if the table holds no state row of
\* its entity or one whose _seq is the transaction's previous sequence, then
\* the table holds no row under the key of any inbound or outbound row of
\* the transaction.
C34_NoRowCollisionAlone ==
    \A c \in BagToSet(calls) :
        LET rows == [i \in 1 .. Len(c.items) |-> c.items[i].Item]
            state == rows[Len(rows)]
            stateOk == \A x \in store : Key(x) = Key(state) => x._seq = c.seq
            rowsOk == \A i \in 1 .. Len(rows) - 1 :
                         \A x \in store : Key(x) # Key(rows[i])
        IN stateOk => rowsOk

\* A transaction with an inbound and an outbound row is in flight, its
\* previous sequence is the stored one, and the entity has rows of both
\* kinds.
C34_Witness ==
    \E c \in BagToSet(calls) :
        /\ StateRows(c.id) # {} /\ c.seq = DurableSeq(c.id)
        /\ Len(c.events) >= 1 /\ Len(c.items) >= 3
        /\ InboundRows(c.id) # {} /\ OutboundRows(c.id) # {}

\* C35: an accepted transaction that adds outbound rows has at least one
\* event and adds them at the sequence of its last inbound row; one without
\* events adds none; so every stored outbound row has an inbound row of its
\* entity with the same sequence.
C35_OutboundOnlyWithInbound ==
    [][/\ \A c \in BagToSet(calls) :
             Committed(c) =>
                LET added == {r \in store' \ store : r._rng[1] = "OUTBOUND"}
                IN /\ Len(c.events) = 0 => added = {}
                   /\ \A o \in added :
                         /\ Len(c.events) >= 1
                         /\ o._seq = c.seq + Len(c.events)
                         /\ \E i \in store' \ store :
                               /\ i._rng[1] = "INBOUND" /\ i._id = o._id
                               /\ i._seq = o._seq
       /\ \A o \in {r \in store' : r._rng[1] = "OUTBOUND"} :
             \E i \in store' : /\ i._rng[1] = "INBOUND" /\ i._id = o._id
                               /\ i._seq = o._seq]_vars

\* A recalculate without new events was accepted on an entity that has
\* outbound rows, and a replay that published.
C35_Witness ==
    /\ res.status = "ok" /\ res.op = "recalculate" /\ res.n = 0
    /\ res.output.pastOutboundEvents # <<>>
    /\ OutboundRows("id") # {}

\* C36: every inbound and outbound row the table holds before a step it
\* holds unchanged after it; a row a step removes or replaces is a state
\* row.
C36_LogRowsOnlyGrow ==
    [][/\ \A r \in store : r._rng[1] \in {"INBOUND", "OUTBOUND"} => r \in store'
       /\ \A r \in store \ store' : r._rng = <<"STATE">>]_vars

\* Two transactions were accepted, the second replaced the state row and
\* the rows of the first are still there.
C36_Witness ==
    /\ commits.count = 2 /\ res.status = "ok"
    /\ Cardinality(StateRows("id")) = 1
    /\ Cardinality(InboundRows("id")) >= 2
    /\ OutboundRows("id") # {}
    /\ commits.rows \subseteq store

\* The operation ended with the reducer's error and touched nothing: no call
\* of putState is in flight, no row was written, nothing was emitted.
RefusedByReducer ==
    /\ res'.status = "error"
    /\ res'.error = ReducerError
    /\ calls' = calls
    /\ store' = store
    /\ emitted' = <<>>

\* The state append hands to the processor: the stored item, or null.
StoredItem(id) ==
    IF get(store, id) # <<>> THEN get(store, id)[1].item ELSE Null

\* C37: when a reducer throws while append, appendTo or recalculate
\* processes its events (for recalculate, the stored ones too), the
\* operation fails with that error, putState is not called and no row is
\* written, the rows of the batch's earlier events included.
C37_ReducerThrowWritesNothing ==
    [][\A id \in Ids, in \in AnyInputs :
          /\ (/\ process(StoredItem(id), <<>>, in[2]).thrown
              /\ Append_(in[1], id, in[2]))
             => RefusedByReducer
          /\ \A state \in AppendToStates, seq \in AppendToSeqs :
                (/\ process(state, <<>>, in[2]).thrown
                 /\ AppendTo(in[1], id, state, seq, in[2]))
                => RefusedByReducer
          /\ (/\ process(Null, InSeqOrder(InboundRows(id)), in[2]).thrown
              /\ Recalculate(in[1], id, in[2]))
             => RefusedByReducer]_vars

\* A reducer threw after a commit had stored rows.
C37_Witness ==
    /\ res.status = "error"
    /\ res.error = ReducerError
    /\ commits.count = 1
    /\ InboundRows("id") # {}
    /\ calls = EmptyBag

MismatchedFacet == "putState: state record has mismatched facet"

\* The operation failed with error and touched nothing.
RefusedWith(error) ==
    /\ res'.status = "error"
    /\ res'.error = error
    /\ calls' = calls
    /\ store' = store
    /\ emitted' = <<>>

\* A step of an operation called on a Facet object whose name is not the
\* name of its EventDB ends as Outcome(thrown) tells, where thrown says
\* whether a reducer throws on the events the operation processes.
OnOtherFacet(Outcome(_)) ==
    \A name \in FacetNames \ {DbFacet}, id \in Ids, in \in AnyInputs :
        in[1] = name =>
          /\ Append_(name, id, in[2])
             => Outcome(process(StoredItem(id), <<>>, in[2]).thrown)
          /\ \A state \in AppendToStates, seq \in AppendToSeqs :
                AppendTo(name, id, state, seq, in[2])
                => Outcome(process(state, <<>>, in[2]).thrown)
          /\ Recalculate(name, id, in[2])
             => Outcome(process(Null, InSeqOrder(InboundRows(id)), in[2]).thrown)

\* C38 (as stated): on a Facet whose name differs from its EventDB's facet,
\* every append, appendTo and recalculate fails with the mismatched-facet
\* validation error and writes nothing, for every input.
C38_OtherFacetAlwaysMismatch ==
    [][OnOtherFacet(LAMBDA thrown : RefusedWith(MismatchedFacet))]_vars

\* C38 (amended): on such a Facet every append, appendTo and recalculate
\* fails and writes nothing; the error is the mismatched-facet validation
\* error when the processor returns and the reducer's error when a reducer
\* throws, because calculate runs the processor before it calls putState.
C38_OtherFacetWritesNothing ==
    [][OnOtherFacet(LAMBDA thrown : IF thrown THEN RefusedWith(ReducerError)
                                    ELSE RefusedWith(MismatchedFacet))]_vars

\* An operation on the other Facet was refused by the validation after a
\* commit had stored rows.
C38_Witness ==
    /\ res.status = "error"
    /\ res.error = MismatchedFacet
    /\ commits.count = 1
    /\ StateRows("id") # {}
    /\ calls = EmptyBag

\* C39: writers that each append at least one event to the same entity and
\* append again, from a fresh read, after a cancelled transaction: a
\* transaction built on the current state sequence is accepted, and one is
\* cancelled only when another writer has committed since its read, so of
\* the writers that read the same sequence the first one answered commits;
\* and when every writer keeps retrying and every transaction is answered,
\* every writer eventually commits.
C39_RetryingWritersCommit ==
    /\ [](\A c \in BagToSet(calls) :
             c.seq = DurableSeq(c.id) => TransactWrite(c.items, store).ok)
    /\ [][\A c \in BagToSet(calls) :
             (Answered(c) /\ res'.status = "error") => DurableSeq(c.id) > c.seq]_vars
    /\ <>(\A w \in Writers : HasCommitted(w))

\* One writer has committed and another, whose transaction was cancelled,
\* is about to append again.
C39_Witness ==
    /\ res.error = "TransactionCanceledException"
    /\ commits.count = 1
    /\ calls = EmptyBag
    /\ \E w \in Writers : ~HasCommitted(w)
====
